---- MODULE Spec2Model ----
(***************************************************************************)
(* Model of the configuration-language converter in src/main.py:           *)
(* remove_comments, the table-driven tokenizer and the recursive-descent   *)
(* Parser with its constant table.                                         *)
(*                                                                         *)
(* A text is a sequence of one-character strings.  Positions are 0-based   *)
(* as in the source, so the character at position p is text[p + 1].        *)
(***************************************************************************)
EXTENDS Integers, Sequences, FiniteSets, TLC

VARIABLES
    source,     \* main: the text read from standard input
    text,       \* tokenize: its argument
    pos,        \* tokenize: the scan position
    tokens,     \* tokenize: the token list built so far
    lexemes,    \* history: every slice matched so far, whitespace included
    self,       \* the Parser object: tokens, pos, constants
    result,     \* Parser.parse: the running result
    hist,       \* history: one record per top-level item parsed completely
    err,        \* the exception raised, NoError when none
    out,        \* main: the tree handed to yaml.dump, and the exit status
    inp,        \* history: the inputs main's text was built from
    pc          \* where the program is

vars == <<source, text, pos, tokens, lexemes, self, result, hist, err, out, inp, pc>>

----------------------------------------------------------------------------
(* Bounds of the model *)

\* texts given to tokenize are concatenations of at most MaxChunks lexicon entries
MaxChunks == 3
\* token sequences given to the Parser: every sequence of at most MaxTokens tokens
MaxTokens == 3
\* ... and every concatenation of at most MaxPhrases phrases
MaxPhrases == 4
\* main's texts are concatenations of at most MaxParts parts
MaxParts == 2
\* a comment body has at most MaxBody characters
MaxBody == 1

----------------------------------------------------------------------------
(* Characters and sequences *)

Digit == {"0", "1", "2", "3", "4", "5", "6", "7", "8", "9"}
Lower == {"a", "b", "c", "d", "e", "f", "g", "h", "i", "j", "k", "l", "m",
          "n", "o", "p", "q", "r", "s", "t", "u", "v", "w", "x", "y", "z"}
Upper == {"A", "B", "C", "D", "E", "F", "G", "H", "I", "J", "K", "L", "M",
          "N", "O", "P", "Q", "R", "S", "T", "U", "V", "W", "X", "Y", "Z"}
\* the characters \b treats as word characters
WordChar == Lower \cup Upper \cup Digit \cup {"_"}
\* [a-z0-9_]
IdentRest == Lower \cup Digit \cup {"_"}
\* [ \t\n]
Blank == {" ", "\t", "\n"}

\* text[a:b] of the source: positions a .. b-1
Slice(t, a, b) == SubSeq(t, a + 1, b)

\* the end of the longest run of characters of class cls starting at position p
RECURSIVE RunEnd(_, _, _)
RunEnd(t, p, cls) ==
    IF p < Len(t) /\ t[p + 1] \in cls THEN RunEnd(t, p + 1, cls) ELSE p

\* the end of the longest run of characters other than ch starting at position p
RECURSIVE RunEndNot(_, _, _)
RunEndNot(t, p, ch) ==
    IF p < Len(t) /\ t[p + 1] # ch THEN RunEndNot(t, p + 1, ch) ELSE p

\* the first position >= p where word w begins in t, or -1
RECURSIVE Find(_, _, _)
Find(t, w, p) ==
    IF p + Len(w) > Len(t) THEN -1
    ELSE IF Slice(t, p, p + Len(w)) = w THEN p
    ELSE Find(t, w, p + 1)

RECURSIVE Concat(_)
Concat(ss) == IF ss = <<>> THEN <<>> ELSE Head(ss) \o Concat(Tail(ss))

----------------------------------------------------------------------------
(* remove_comments: re.sub(r"--\[\[.*?\]\]", "", text, flags=re.S) *)

CommentOpen == <<"-", "-", "[", "[">>
CommentClose == <<"]", "]">>

\* the scan of re.sub from position p: the leftmost opener whose body, taken
\* lazily, reaches the first closer after it is dropped; the scan goes on after it
RECURSIVE RemoveFrom(_, _)
RemoveFrom(t, p) ==
    LET o == Find(t, CommentOpen, p)
        c == IF o = -1 THEN -1 ELSE Find(t, CommentClose, o + 4)
    IN  IF o = -1 \/ c = -1 THEN Slice(t, p, Len(t))
        ELSE Slice(t, p, o) \o RemoveFrom(t, c + 2)

\* the last position where word w begins in t at or after p, or -1
RECURSIVE FindLast(_, _, _)
FindLast(t, w, p) ==
    LET f == Find(t, w, p)
    IN  IF f = -1 THEN -1
        ELSE IF Find(t, w, f + 1) = -1 THEN f
        ELSE FindLast(t, w, f + 1)

\* remove_comments with a greedy body, .* for .*?: the first opener's comment
\* runs to the last closer of the text
remove_comments_Greedy(t) ==
    LET o == Find(t, CommentOpen, 0)
        c == IF o = -1 THEN -1 ELSE FindLast(t, CommentClose, o + 4)
    IN  IF o = -1 \/ c = -1 THEN t
        ELSE Slice(t, 0, o) \o Slice(t, c + 2, Len(t))

remove_comments(t) == RemoveFrom(t, 0)

----------------------------------------------------------------------------
(* TOKEN_REGEX: each pattern matched at position p gives the end of the    *)
(* match, or NoMatch                                                       *)

NoMatch == -1

\* \d*\.\d+
MatchNumber(t, p) ==
    LET d == RunEnd(t, p, Digit)
    IN  IF d + 1 < Len(t) /\ t[d + 1] = "." /\ t[d + 2] \in Digit
        THEN RunEnd(t, d + 1, Digit)
        ELSE NoMatch

\* '[^']*'
MatchString(t, p) ==
    IF p < Len(t) /\ t[p + 1] = "'"
    THEN LET q == RunEndNot(t, p + 1, "'")
         IN  IF q < Len(t) THEN q + 1 ELSE NoMatch
    ELSE NoMatch

\* a literal word followed by \b (every such word ends in a word character)
MatchWord(t, p, w) ==
    LET e == p + Len(w)
    IN  IF e <= Len(t) /\ Slice(t, p, e) = w
           /\ (e = Len(t) \/ t[e + 1] \notin WordChar)
        THEN e
        ELSE NoMatch

\* \|[a-z][a-z0-9_]*\|
MatchConst(t, p) ==
    IF p + 1 < Len(t) /\ t[p + 1] = "|" /\ t[p + 2] \in Lower
    THEN LET q == RunEnd(t, p + 2, IdentRest)
         IN  IF q < Len(t) /\ t[q + 1] = "|" THEN q + 1 ELSE NoMatch
    ELSE NoMatch

\* [a-z][a-z0-9_]*
MatchIdent(t, p) ==
    IF p < Len(t) /\ t[p + 1] \in Lower
    THEN RunEnd(t, p + 1, IdentRest)
    ELSE NoMatch

\* a single literal character
MatchChar(t, p, ch) ==
    IF p < Len(t) /\ t[p + 1] = ch THEN p + 1 ELSE NoMatch

\* the whitespace pattern with * for +: it matches the empty string
MatchSkip_Empty(t, p) == RunEnd(t, p, Blank)

\* [ \t\n]+
MatchSkip(t, p) ==
    IF p < Len(t) /\ t[p + 1] \in Blank THEN RunEnd(t, p, Blank) ELSE NoMatch

\* the table with the identifier pattern moved before the keywords
TOKEN_REGEX_IdentFirst ==
    <<"NUMBER", "STRING", "IDENT", "SET", "STRUCT", "LIST", "CONST",
      "LBRACE", "RBRACE", "LPAREN", "RPAREN", "EQUAL", "COMMA", "SKIP">>

\* the table's order
TOKEN_REGEX ==
    <<"NUMBER", "STRING", "SET", "STRUCT", "LIST", "CONST", "IDENT",
      "LBRACE", "RBRACE", "LPAREN", "RPAREN", "EQUAL", "COMMA", "SKIP">>

\* pattern.match(text, pos) for the pattern of type ttype
Match(ttype, t, p) ==
    CASE ttype = "NUMBER" -> MatchNumber(t, p)
      [] ttype = "STRING" -> MatchString(t, p)
      [] ttype = "SET"    -> MatchWord(t, p, <<"s", "e", "t">>)
      [] ttype = "STRUCT" -> MatchWord(t, p, <<"s", "t", "r", "u", "c", "t">>)
      [] ttype = "LIST"   -> MatchWord(t, p, <<"(", "l", "i", "s", "t">>)
      [] ttype = "CONST"  -> MatchConst(t, p)
      [] ttype = "IDENT"  -> MatchIdent(t, p)
      [] ttype = "LBRACE" -> MatchChar(t, p, "{")
      [] ttype = "RBRACE" -> MatchChar(t, p, "}")
      [] ttype = "LPAREN" -> MatchChar(t, p, "(")
      [] ttype = "RPAREN" -> MatchChar(t, p, ")")
      [] ttype = "EQUAL"  -> MatchChar(t, p, "=")
      [] ttype = "COMMA"  -> MatchChar(t, p, ",")
      [] ttype = "SKIP"   -> MatchSkip(t, p)

\* the for loop of tokenize: the index in the table of the first pattern
\* that matches at p, 0 when none does
RECURSIVE FirstFrom(_, _, _)
FirstFrom(i, t, p) ==
    IF i > Len(TOKEN_REGEX) THEN 0
    ELSE IF Match(TOKEN_REGEX[i], t, p) # NoMatch THEN i
    ELSE FirstFrom(i + 1, t, p)

FirstMatch(t, p) == FirstFrom(1, t, p)

Token(t, v) == [type |-> t, value |-> v]

----------------------------------------------------------------------------
(* Exceptions *)

NoError == [kind |-> "none", msg |-> "", expected |-> "", got |-> "",
            name |-> <<>>, at |-> -1]
SyntaxError(m) == [NoError EXCEPT !.kind = "SyntaxError", !.msg = m]
\* the offset reported 1-based
ErrUnexpectedChar_OneBased(p) ==
    [SyntaxError("Unexpected character at position") EXCEPT !.at = p + 1]

\* SyntaxError(f"Unexpected character at position {pos}")
ErrUnexpectedChar(p) ==
    [SyntaxError("Unexpected character at position") EXCEPT !.at = p]

ErrExpected(e, g) ==
    [SyntaxError("Expected, got") EXCEPT !.expected = e, !.got = g]
ErrUnknownConstant(n) == [SyntaxError("Unknown constant") EXCEPT !.name = n]
ErrUnexpectedToken(g) == [SyntaxError("Unexpected token") EXCEPT !.got = g]
\* tok.type evaluated when peek() returned None
AttributeError ==
    [NoError EXCEPT !.kind = "AttributeError",
                    !.msg = "'NoneType' object has no attribute 'type'"]

----------------------------------------------------------------------------
(* Values of the parsed tree *)

\* Python's None
NoneVal == [k |-> "none"]
\* a float, kept exactly as m / 10^e with no trailing zero in the fraction
NumVal(m, e) == [k |-> "num", m |-> m, e |-> e]
StrVal(s) == [k |-> "str", s |-> s]
ListVal(items) == [k |-> "list", items |-> items]
DictVal(obj) == [k |-> "dict", obj |-> obj]

\* {} and d[key] = value
EmptyDict == <<>>
\* an assignment that keeps the value of a key already there
DictSet_KeepFirst(d, key, value) ==
    [x \in DOMAIN d \cup {key} |-> IF x \in DOMAIN d THEN d[x] ELSE value]

DictSet(d, key, value) ==
    [x \in DOMAIN d \cup {key} |-> IF x = key THEN value ELSE d[x]]

DigitValue(ch) ==
    CASE ch = "0" -> 0 [] ch = "1" -> 1 [] ch = "2" -> 2 [] ch = "3" -> 3
      [] ch = "4" -> 4 [] ch = "5" -> 5 [] ch = "6" -> 6 [] ch = "7" -> 7
      [] ch = "8" -> 8 [] ch = "9" -> 9

\* the integer written by the digits of s, acc being the value read so far
RECURSIVE DigitsValue(_, _)
DigitsValue(s, acc) ==
    IF s = <<>> THEN acc
    ELSE DigitsValue(Tail(s), 10 * acc + DigitValue(Head(s)))

RECURSIVE Normalise(_, _)
Normalise(m, e) ==
    IF e > 0 /\ m % 10 = 0 THEN Normalise(m \div 10, e - 1) ELSE NumVal(m, e)

\* float(s) for s matching \d*\.\d+
float(s) ==
    LET dot == RunEndNot(s, 0, ".")
        digits == Slice(s, 0, dot) \o Slice(s, dot + 1, Len(s))
    IN  Normalise(DigitsValue(digits, 0), Len(s) - dot - 1)

\* s.strip(ch)
RECURSIVE lstrip(_, _)
lstrip(s, ch) == IF s # <<>> /\ Head(s) = ch THEN lstrip(Tail(s), ch) ELSE s
RECURSIVE rstrip(_, _)
rstrip(s, ch) ==
    IF s # <<>> /\ s[Len(s)] = ch THEN rstrip(SubSeq(s, 1, Len(s) - 1), ch) ELSE s
strip(s, ch) == rstrip(lstrip(s, ch), ch)

----------------------------------------------------------------------------
(* class Parser.  A method takes the object s and gives the object as the   *)
(* call left it, the value returned and the exception raised.              *)

None == Token("None", <<>>)

Parser(toks) == [tokens |-> toks, pos |-> 0, constants |-> EmptyDict]

peek(s) == IF s.pos < Len(s.tokens) THEN s.tokens[s.pos + 1] ELSE None

Returned(s, v) == [self |-> s, val |-> v, err |-> NoError]
Raised(s, e) == [self |-> s, val |-> NoneVal, err |-> e]

\* consume(expected); expected = "" stands for the default None
consume(s, expected) ==
    LET token == peek(s)
    IN  IF token = None
        THEN [self |-> s, tok |-> None,
              err |-> SyntaxError("Unexpected end of input")]
        ELSE IF expected # "" /\ token.type # expected
        THEN [self |-> s, tok |-> None, err |-> ErrExpected(expected, token.type)]
        ELSE [self |-> [s EXCEPT !.pos = @ + 1], tok |-> token, err |-> NoError]

RECURSIVE parse_value(_)
RECURSIVE parse_list(_)
RECURSIVE list_loop(_, _)
RECURSIVE parse_struct(_)
RECURSIVE struct_loop(_, _)
RECURSIVE struct_entry(_)

parse_value(s) ==
    LET tok == peek(s)
        c == consume(s, "")
    IN  IF tok = None THEN Raised(s, AttributeError)
        ELSE IF tok.type = "NUMBER" THEN Returned(c.self, float(c.tok.value))
        ELSE IF tok.type = "STRING"
        THEN Returned(c.self, StrVal(strip(c.tok.value, "'")))
        ELSE IF tok.type = "CONST"
        THEN LET name == strip(c.tok.value, "|")
             IN  IF name \notin DOMAIN c.self.constants
                 THEN Raised(c.self, ErrUnknownConstant(name))
                 ELSE Returned(c.self, c.self.constants[name])
        ELSE IF tok.type = "LIST" THEN parse_list(s)
        ELSE IF tok.type = "STRUCT" THEN parse_struct(s)
        ELSE Raised(s, ErrUnexpectedToken(tok.type))

\* items.insert(0, v)
list_append_Front(items, v) == <<v>> \o items

\* items.append(v)
list_append(items, v) == Append(items, v)

\* the while loop of parse_list and the consume("RPAREN") after it
list_loop(s, items) ==
    IF peek(s) # None /\ peek(s).type # "RPAREN"
    THEN LET r == parse_value(s)
         IN  IF r.err # NoError THEN r
             ELSE list_loop(r.self, list_append(items, r.val))
    ELSE LET c == consume(s, "RPAREN")
         IN  IF c.err # NoError THEN Raised(c.self, c.err)
             ELSE Returned(c.self, ListVal(items))

parse_list(s) ==
    LET c == consume(s, "LIST")
    IN  IF c.err # NoError THEN Raised(c.self, c.err)
        ELSE list_loop(c.self, <<>>)

\* the comma is never consumed
struct_comma_Never(s) == s

\* the tail of one iteration of parse_struct's loop: the optional comma
struct_comma(s) ==
    IF peek(s) # None /\ peek(s).type = "COMMA" THEN consume(s, "COMMA").self
    ELSE s

\* the body of parse_struct's loop up to the assignment: key = value
struct_entry(s) ==
    LET k == consume(s, "IDENT")
        e == consume(k.self, "EQUAL")
        r == parse_value(e.self)
    IN  IF k.err # NoError THEN [self |-> k.self, key |-> <<>>, val |-> NoneVal, err |-> k.err]
        ELSE IF e.err # NoError
        THEN [self |-> e.self, key |-> <<>>, val |-> NoneVal, err |-> e.err]
        ELSE IF r.err # NoError
        THEN [self |-> r.self, key |-> <<>>, val |-> NoneVal, err |-> r.err]
        ELSE [self |-> struct_comma(r.self), key |-> k.tok.value, val |-> r.val,
              err |-> NoError]

\* the while loop of parse_struct and the consume("RBRACE") after it
struct_loop(s, obj) ==
    IF peek(s) # None /\ peek(s).type # "RBRACE"
    THEN LET n == struct_entry(s)
         IN  IF n.err # NoError THEN Raised(n.self, n.err)
             ELSE struct_loop(n.self, DictSet(obj, n.key, n.val))
    ELSE LET c == consume(s, "RBRACE")
         IN  IF c.err # NoError THEN Raised(c.self, c.err)
             ELSE Returned(c.self, DictVal(obj))

parse_struct(s) ==
    LET c == consume(s, "STRUCT")
        b == consume(c.self, "LBRACE")
    IN  IF c.err # NoError THEN Raised(c.self, c.err)
        ELSE IF b.err # NoError THEN Raised(b.self, b.err)
        ELSE struct_loop(b.self, EmptyDict)

\* parse_set binding the name before it parses the value
parse_set_DefineFirst(s) ==
    LET c == consume(s, "SET")
        n == consume(c.self, "IDENT")
        e == consume(n.self, "EQUAL")
        d == [e.self EXCEPT !.constants = DictSet(@, n.tok.value, NoneVal)]
        r == parse_value(d)
    IN  IF c.err # NoError THEN Raised(c.self, c.err)
        ELSE IF n.err # NoError THEN Raised(n.self, n.err)
        ELSE IF e.err # NoError THEN Raised(e.self, e.err)
        ELSE IF r.err # NoError THEN r
        ELSE Returned([r.self EXCEPT
                          !.constants = DictSet(@, n.tok.value, r.val)],
                      NoneVal)

\* parse_set returns nothing: val is None
parse_set(s) ==
    LET c == consume(s, "SET")
        n == consume(c.self, "IDENT")
        e == consume(n.self, "EQUAL")
        r == parse_value(e.self)
    IN  IF c.err # NoError THEN Raised(c.self, c.err)
        ELSE IF n.err # NoError THEN Raised(n.self, n.err)
        ELSE IF e.err # NoError THEN Raised(e.self, e.err)
        ELSE IF r.err # NoError THEN r
        ELSE Returned([r.self EXCEPT
                          !.constants = DictSet(@, n.tok.value, r.val)],
                      NoneVal)

\* Parser.parse from the object s and the running result, as a function
RECURSIVE parse(_, _)
parse(s, res) ==
    IF peek(s) = None THEN Returned(s, res)
    ELSE IF peek(s).type = "SET"
    THEN LET r == parse_set(s)
         IN  IF r.err # NoError THEN r ELSE parse(r.self, res)
    ELSE LET r == parse_value(s)
         IN  IF r.err # NoError THEN r ELSE parse(r.self, r.val)

\* tokenize from position p with the tokens toks, as a function
RECURSIVE tokenize(_, _, _)
tokenize(t, p, toks) ==
    IF ~(p < Len(t)) THEN [tokens |-> toks, err |-> NoError]
    ELSE IF FirstMatch(t, p) = 0 THEN [tokens |-> <<>>, err |-> ErrUnexpectedChar(p)]
    ELSE LET ttype == TOKEN_REGEX[FirstMatch(t, p)]
             end == Match(ttype, t, p)
         IN  tokenize(t, end,
                      IF ttype # "SKIP"
                      THEN Append(toks, Token(ttype, Slice(t, p, end)))
                      ELSE toks)

\* what main makes of the text t: the tree it dumps, or a failure
main(t) ==
    LET toks == tokenize(remove_comments(t), 0, <<>>)
        r == parse(Parser(toks.tokens), NoneVal)
    IN  IF toks.err # NoError \/ r.err # NoError
        THEN [tree |-> NoneVal, written |-> FALSE, status |-> 1]
        ELSE [tree |-> r.val, written |-> TRUE, status |-> 0]

----------------------------------------------------------------------------
(* The inputs *)

\* every concatenation of at most n members of the set parts
RECURSIVE Cat(_, _)
Cat(parts, n) ==
    IF n = 0 THEN {<<>>}
    ELSE LET shorter == Cat(parts, n - 1)
         IN  shorter \cup {a \o b : a \in shorter, b \in parts}

\* tokenize's texts are built from the keywords, identifier characters, a
\* digit, a dot, a quote, a blank, a parenthesis, a bar and two characters of
\* no pattern
Lexicon ==
    {<<"s", "e", "t">>,
     <<"s", "t", "r", "u", "c", "t">>,
     <<"(", "l", "i", "s", "t">>,
     <<"x">>,
     <<"_">>,
     <<"1">>,
     <<".">>,
     <<"'">>,
     <<" ">>,
     <<"(">>,
     <<"|">>,
     <<"@">>,
     <<"A">>}

Texts == Cat(Lexicon, MaxChunks)

TNum(v) == Token("NUMBER", v)
TStr == Token("STRING", <<"'", "x", "'">>)
TSet == Token("SET", <<"s", "e", "t">>)
TStruct == Token("STRUCT", <<"s", "t", "r", "u", "c", "t">>)
TList == Token("LIST", <<"(", "l", "i", "s", "t">>)
TConst(n) == Token("CONST", <<"|", n, "|">>)
TIdent(n) == Token("IDENT", <<n>>)
TLBrace == Token("LBRACE", <<"{">>)
TRBrace == Token("RBRACE", <<"}">>)
TRParen == Token("RPAREN", <<")">>)
TEqual == Token("EQUAL", <<"=">>)
TComma == Token("COMMA", <<",">>)
THalf == TNum(<<".", "5">>)
TOne == TNum(<<"1", ".", "0">>)

\* one token of every type the grammar uses
TokenLexicon ==
    {<<THalf>>, <<TStr>>, <<TSet>>, <<TStruct>>, <<TList>>, <<TConst("a")>>,
     <<TIdent("a")>>, <<TLBrace>>, <<TRBrace>>, <<TRParen>>, <<TEqual>>,
     <<TComma>>}

\* the pieces of struct literals: entries with scalar and nested values
StructPhrases ==
    {<<TStruct, TLBrace>>, <<TIdent("a"), TEqual, THalf>>,
     <<TIdent("a"), TEqual, THalf, TComma>>,
     <<TIdent("b"), TEqual, TStr>>, <<TIdent("a"), TEqual, TStruct, TLBrace>>,
     <<TComma>>, <<TRBrace>>}

\* the pieces of list literals
ListPhrases ==
    {<<TList>>, <<TRParen>>, <<THalf>>, <<TStr>>, <<TComma>>,
     <<TStruct, TLBrace, TIdent("a"), TEqual, TOne, TRBrace>>}

\* definitions of and references to constants
ConstPhrases ==
    {<<TSet, TIdent("a"), TEqual, THalf>>, <<TSet, TIdent("a"), TEqual, TStr>>,
     <<TSet, TIdent("b"), TEqual, TConst("a")>>,
     <<TSet, TIdent("a"), TEqual, TConst("a")>>,
     <<TSet, TIdent("a"), TEqual, TConst("b")>>,
     <<TConst("a")>>, <<TConst("b")>>}

TokenSeqs ==
    Cat(TokenLexicon, MaxTokens) \cup Cat(StructPhrases, MaxPhrases)
        \cup Cat(ListPhrases, MaxPhrases) \cup Cat(ConstPhrases, MaxPhrases)

\* main's texts
Parts ==
    {<<"s", "e", "t", " ", "a", "=">>,
     <<".", "5">>,
     <<"'", "a", "b", "'">>,
     <<"-", "-", "[", "[">>,
     <<"]", "]">>}

\* the characters of a comment body
BodyChars == {<<"x">>, <<"]">>}

----------------------------------------------------------------------------
(* tokenize *)

\* tokenize(t) is called
CallTokenize(t) ==
    /\ text' = t
    /\ pos' = 0
    /\ tokens' = <<>>
    /\ lexemes' = <<>>

\* one iteration of the while loop in which a pattern matches
TokenizeMatch ==
    /\ pc = "tokenize"
    /\ pos < Len(text)
    /\ FirstMatch(text, pos) # 0
    /\ LET ttype == TOKEN_REGEX[FirstMatch(text, pos)]
           end == Match(ttype, text, pos)
       IN  /\ tokens' = IF ttype # "SKIP"
                        THEN Append(tokens, Token(ttype, Slice(text, pos, end)))
                        ELSE tokens
           /\ lexemes' = Append(lexemes, Slice(text, pos, end))
           /\ pos' = end
    /\ UNCHANGED <<source, text, self, result, hist, err, out, inp, pc>>

\* one iteration of the while loop in which no pattern matches
TokenizeRaise ==
    /\ pc = "tokenize"
    /\ pos < Len(text)
    /\ FirstMatch(text, pos) = 0
    /\ err' = ErrUnexpectedChar(pos)
    /\ pc' = "raised"
    /\ UNCHANGED <<source, text, pos, tokens, lexemes, self, result, hist, out, inp>>

\* the loop ends and tokenize returns its tokens
TokenizeReturn ==
    /\ pc = "tokenize"
    /\ ~(pos < Len(text))
    /\ pc' = "tokenized"
    /\ UNCHANGED <<source, text, pos, tokens, lexemes, self, result, hist, err, out, inp>>

----------------------------------------------------------------------------
(* Parser.parse *)

\* the iteration written as result = self.parse_set()
ParseSet_ResultNone ==
    /\ pc = "parse"
    /\ peek(self) # None
    /\ peek(self).type = "SET"
    /\ LET r == parse_set(self)
       IN  /\ self' = r.self
           /\ err' = r.err
           /\ pc' = IF r.err # NoError THEN "raised" ELSE "parse"
           /\ result' = IF r.err # NoError THEN result ELSE r.val
           /\ hist' = IF r.err # NoError THEN hist
                      ELSE Append(hist, [stmt |-> "set",
                                         name |-> self.tokens[self.pos + 2].value,
                                         val |-> parse_value(
                                                   [self EXCEPT !.pos = @ + 3]).val,
                                         from |-> self.pos, to |-> r.self.pos])
    /\ UNCHANGED <<source, text, pos, tokens, lexemes, out, inp>>

\* an iteration of parse's loop on a set statement
ParseSet ==
    /\ pc = "parse"
    /\ peek(self) # None
    /\ peek(self).type = "SET"
    /\ LET r == parse_set(self)
       IN  /\ self' = r.self
           /\ err' = r.err
           /\ pc' = IF r.err # NoError THEN "raised" ELSE "parse"
           /\ hist' = IF r.err # NoError THEN hist
                      ELSE Append(hist, [stmt |-> "set",
                                         name |-> self.tokens[self.pos + 2].value,
                                         val |-> parse_value(
                                                   [self EXCEPT !.pos = @ + 3]).val,
                                         from |-> self.pos, to |-> r.self.pos])
    /\ UNCHANGED <<source, text, pos, tokens, lexemes, result, out, inp>>

\* an iteration of parse's loop on anything else
ParseValue ==
    /\ pc = "parse"
    /\ peek(self) # None
    /\ peek(self).type # "SET"
    /\ LET r == parse_value(self)
       IN  /\ self' = r.self
           /\ err' = r.err
           /\ pc' = IF r.err # NoError THEN "raised" ELSE "parse"
           /\ result' = IF r.err # NoError THEN result ELSE r.val
           /\ hist' = IF r.err # NoError THEN hist
                      ELSE Append(hist, [stmt |-> "value", name |-> <<>>,
                                         val |-> r.val,
                                         from |-> self.pos, to |-> r.self.pos])
    /\ UNCHANGED <<source, text, pos, tokens, lexemes, out, inp>>

\* the loop ends and parse returns result
ParseReturn ==
    /\ pc = "parse"
    /\ peek(self) = None
    /\ pc' = "parsed"
    /\ UNCHANGED <<source, text, pos, tokens, lexemes, self, result, hist, err, out, inp>>

----------------------------------------------------------------------------
(* main *)

\* source = remove_comments(source); tokens = tokenize(source)
MainRemoveComments ==
    /\ pc = "read"
    /\ source' = remove_comments(source)
    /\ CallTokenize(source')
    /\ pc' = "tokenize"
    /\ UNCHANGED <<self, result, hist, err, out, inp>>

\* tree = Parser(tokens).parse()
MainParser ==
    /\ pc = "tokenized"
    /\ self' = Parser(tokens)
    /\ pc' = "parse"
    /\ UNCHANGED <<source, text, pos, tokens, lexemes, result, hist, err, out, inp>>

\* yaml.dump(tree, f)
MainDump ==
    /\ pc = "parsed"
    /\ out' = [tree |-> result, written |-> TRUE, status |-> 0]
    /\ pc' = "exit"
    /\ UNCHANGED <<source, text, pos, tokens, lexemes, self, result, hist, err, inp>>

\* except SyntaxError: nothing is written, exit status 1
MainExcept ==
    /\ pc = "raised"
    /\ err.kind = "SyntaxError"
    /\ out' = [tree |-> NoneVal, written |-> FALSE, status |-> 1]
    /\ pc' = "exit"
    /\ UNCHANGED <<source, text, pos, tokens, lexemes, self, result, hist, err, inp>>

\* any other exception passes main's handler: a traceback, exit status 1
MainUncaught ==
    /\ pc = "raised"
    /\ err.kind # "SyntaxError"
    /\ out' = [tree |-> NoneVal, written |-> FALSE, status |-> 1]
    /\ pc' = "exit"
    /\ UNCHANGED <<source, text, pos, tokens, lexemes, self, result, hist, err, inp>>

----------------------------------------------------------------------------
(* Specifications *)

NoOut == [tree |-> NoneVal, written |-> FALSE, status |-> -1]
NoInput == [main |-> FALSE, t |-> <<>>, p |-> 0, c |-> <<>>]

\* t with the comment --[[c]] inserted at position p
WithComment(t, p, c) ==
    Slice(t, 0, p) \o CommentOpen \o c \o CommentClose \o Slice(t, p, Len(t))

\* comment bodies: no closer inside
Bodies == {c \in Cat(BodyChars, MaxBody) : Find(c, CommentClose, 0) = -1}

\* main's inputs: a text, a position in it and the body of the comment put there
MainInputs ==
    UNION {{[main |-> TRUE, t |-> t, p |-> p, c |-> c] :
              p \in 0 .. Len(t), c \in Bodies} : t \in Cat(Parts, MaxParts)}

\* main reads a text with a comment in it
InitMain ==
    /\ inp \in MainInputs
    /\ source = WithComment(inp.t, inp.p, inp.c)
    /\ text = <<>>
    /\ self = Parser(<<>>)
    /\ pc = "read"

\* main's text is one of Texts, with no comment to remove
InitLex ==
    /\ inp = NoInput
    /\ text \in Texts
    /\ source = text
    /\ self = Parser(<<>>)
    /\ pc = "tokenize"

\* tokenize returned one of TokenSeqs
InitParse ==
    /\ inp = NoInput
    /\ source = <<>>
    /\ text = <<>>
    /\ self \in {Parser(toks) : toks \in TokenSeqs}
    /\ pc = "parse"

Init ==
    /\ InitMain \/ InitLex \/ InitParse
    /\ pos = 0
    /\ tokens = <<>>
    /\ lexemes = <<>>
    /\ result = NoneVal
    /\ hist = <<>>
    /\ err = NoError
    /\ out = NoOut

Next ==
    \/ MainRemoveComments
    \/ TokenizeMatch
    \/ TokenizeRaise
    \/ TokenizeReturn
    \/ MainParser
    \/ ParseSet
    \/ ParseValue
    \/ ParseReturn
    \/ MainDump
    \/ MainExcept
    \/ MainUncaught

Spec == Init /\ [][Next]_vars

----------------------------------------------------------------------------
(* Properties *)

Range(f) == {f[i] : i \in DOMAIN f}
Last(q) == q[Len(q)]

\* the Parser object with its cursor moved to q
At(q) == [self EXCEPT !.pos = q]

\* the cursor positions that hold a token
Cursors == 0 .. Len(self.tokens) - 1

KwSet == <<"s", "e", "t">>
KwStruct == <<"s", "t", "r", "u", "c", "t">>
KwList == <<"(", "l", "i", "s", "t">>

StartsWith(t, p, w) == p + Len(w) <= Len(t) /\ Slice(t, p, p + Len(w)) = w
\* w at p with a word boundary after it
WordAt(t, p, w) ==
    StartsWith(t, p, w) /\ (p + Len(w) = Len(t) \/ t[p + Len(w) + 1] \notin WordChar)
\* w at p going on as an identifier
LongerIdent(t, p, w) ==
    StartsWith(t, p, w) /\ p + Len(w) < Len(t) /\ t[p + Len(w) + 1] \in IdentRest

\* the order of the patterns as the specification gives it
StatedOrder ==
    <<"NUMBER", "STRING", "SET", "STRUCT", "LIST", "CONST", "IDENT",
      "LBRACE", "RBRACE", "LPAREN", "RPAREN", "EQUAL", "COMMA", "SKIP">>

\* the patterns of the stated order that match at p
Matching(t, p) == {i \in DOMAIN StatedOrder : Match(StatedOrder[i], t, p) # NoMatch}
NoPatternAt(t, p) == Matching(t, p) = {}
FirstStated(t, p) ==
    StatedOrder[CHOOSE i \in Matching(t, p) : \A j \in Matching(t, p) : i <= j]

\* the scan is in an iteration of tokenize's loop
Scanning == pc = "tokenize" /\ pos < Len(text)

\* tokenize emitted a token of type ty for text[pos:end] and moved to end
Emitted(ty, end) ==
    /\ tokens' = Append(tokens, Token(ty, Slice(text, pos, end)))
    /\ pos' = end

\* C5: at every scan position tokenize takes the first pattern of the stated
\* order that matches there and advances by the length of the match; so a
\* keyword at a word boundary comes out as SET, STRUCT or LIST, a keyword that
\* goes on as an identifier comes out as one IDENT, and blanks emit no token.
C5_FirstPatternWins ==
    [][Scanning =>
        /\ ~NoPatternAt(text, pos) =>
              LET ty == FirstStated(text, pos)
                  end == Match(ty, text, pos)
              IN  /\ pos' = end
                  /\ ty # "SKIP" => Emitted(ty, end)
                  /\ ty = "SKIP" => tokens' = tokens
        /\ WordAt(text, pos, KwSet) => Emitted("SET", pos + 3)
        /\ WordAt(text, pos, KwStruct) => Emitted("STRUCT", pos + 6)
        /\ WordAt(text, pos, KwList) => Emitted("LIST", pos + 5)
        /\ LongerIdent(text, pos, KwSet) \/ LongerIdent(text, pos, KwStruct) =>
              Emitted("IDENT", RunEnd(text, pos, IdentRest))
        /\ text[pos + 1] \in Blank =>
              tokens' = tokens /\ pos' = RunEnd(text, pos, Blank)
    ]_vars

\* C5 witness: "(list", a blank and "set" were scanned: two keyword tokens
\* and no token for the blank
C5_Witness ==
    /\ pc = "tokenized"
    /\ Len(lexemes) = 3
    /\ tokens = <<TList, TSet>>

\* C6: tokenize raises exactly when the scan stands at a position where no
\* pattern matches; the offset reported is that position, everything before
\* it was consumed, and no token list reaches the parser.  A digit run with no
\* decimal point after it and the character @ are such positions.
C6_ErrorAtFirstUnmatched ==
    [][/\ pc = "tokenize" =>
            /\ pc' = "raised" <=> (pos < Len(text) /\ NoPatternAt(text, pos))
            /\ pc' = "raised" =>
                  /\ err' = [SyntaxError("Unexpected character at position")
                                EXCEPT !.at = pos]
                  /\ Concat(lexemes) = Slice(text, 0, pos)
            /\ pc' = "tokenized" => Concat(lexemes) = text
            /\ Scanning /\ text[pos + 1] = "@" => pc' = "raised"
            /\ (/\ Scanning
                /\ text[pos + 1] \in Digit
                /\ LET d == RunEnd(text, pos, Digit)
                   IN  ~(d < Len(text) /\ text[d + 1] = ".")) => pc' = "raised"
       /\ err'.msg = "Unexpected character at position" =>
            /\ pc' \in {"raised", "exit"}
            /\ self' = Parser(<<>>)
            /\ ~out'.written
    ]_vars

\* C6 witness: the scan failed after it had emitted tokens
C6_Witness ==
    /\ pc = "raised"
    /\ err.msg = "Unexpected character at position"
    /\ err.at >= 3
    /\ tokens # <<>>

\* C1: parse ends with a value or with a SyntaxError, never with another
\* exception; where the cursor is exhausted the error is "Unexpected end of
\* input".
C1_OnlySyntaxError ==
    /\ err.kind \in {"none", "SyntaxError"}
    /\ (pc = "raised" /\ self.tokens # <<>> /\ Last(self.tokens).type = "EQUAL"
          /\ self.pos = Len(self.tokens))
         => err = SyntaxError("Unexpected end of input")

\* the name a reference token |n| names
RefName(tok) == SubSeq(tok.value, 2, Len(tok.value) - 1)

\* the completed set statements of name n so far, by their place in hist
SetsOf(n) == {i \in DOMAIN hist : hist[i].stmt = "set" /\ hist[i].name = n}
Defined(n) == SetsOf(n) # {}
\* the value bound by the most recent completed set of n
LastSet(n) == hist[CHOOSE i \in SetsOf(n) : \A j \in SetsOf(n) : j <= i].val

\* the top-level loop is about to parse a set statement, or a value
AtSet == pc = "parse" /\ peek(self) # None /\ peek(self).type = "SET"
AtValue == pc = "parse" /\ peek(self) # None /\ peek(self).type # "SET"

\* the types of the tokens from cursor q on begin with the sequence tys
TypesAt(q, tys) ==
    /\ q + Len(tys) <= Len(self.tokens)
    /\ \A i \in DOMAIN tys : self.tokens[q + i].type = tys[i]

\* C2: a reference |n| parsed when no set of n has been completed raises
\* "Unknown constant" (so does set n = |n| as n's first definition); otherwise
\* it gives the value of the most recent completed set of n, and a later set
\* changes no value produced before it.
C2_ResolveByPosition ==
    [][pc = "parse" =>
        /\ \A q \in Cursors :
              self.tokens[q + 1].type = "CONST" =>
                 LET n == RefName(self.tokens[q + 1])
                     r == parse_value(At(q))
                 IN  IF Defined(n)
                     THEN r = Returned(At(q + 1), LastSet(n))
                     ELSE r.err = ErrUnknownConstant(n)
        /\ AtValue /\ peek(self).type = "CONST" =>
              LET n == RefName(peek(self))
              IN  IF Defined(n)
                  THEN pc' = "parse" /\ result' = LastSet(n)
                  ELSE pc' = "raised" /\ err' = ErrUnknownConstant(n)
        /\ AtSet /\ TypesAt(self.pos, <<"SET", "IDENT", "EQUAL", "CONST">>) =>
              LET m == self.tokens[self.pos + 2].value
                  n == RefName(self.tokens[self.pos + 4])
              IN  IF Defined(n)
                  THEN pc' = "parse" /\ self'.constants[m] = LastSet(n)
                  ELSE /\ pc' = "raised"
                       /\ err' = ErrUnknownConstant(n)
                       /\ self'.constants = self.constants
        /\ AtSet /\ pc' = "parse" =>
              /\ result' = result
              /\ \A m \in DOMAIN self.constants :
                    m # self.tokens[self.pos + 2].value =>
                       self'.constants[m] = self.constants[m]
    ]_vars

\* C2 witness: set a = .5, set b = |a|, set a = 'x', |b| was parsed: b kept
\* the value a had when b was set
C2_Witness ==
    /\ pc = "parsed"
    /\ Len(hist) = 4
    /\ result = NumVal(5, 1)
    /\ DOMAIN self.constants = {<<"a">>, <<"b">>}
    /\ self.constants[<<"a">>] = StrVal(<<"x">>)
    /\ self.constants[<<"b">>] = NumVal(5, 1)

IsValueStmt(e) == e.stmt = "value"
\* the top-level values parsed so far
ValueStmts == SelectSeq(hist, IsValueStmt)

\* C3: the result of parse is the value of the last top-level item that is
\* not a set statement, and None exactly when there was no such item.
C3_LastTopLevelValue ==
    /\ pc \in {"parse", "parsed"} =>
          /\ result = IF ValueStmts = <<>> THEN NoneVal ELSE Last(ValueStmts).val
          /\ result = NoneVal <=> ValueStmts = <<>>
    /\ pc = "exit" /\ out.written =>
          out.tree = IF ValueStmts = <<>> THEN NoneVal ELSE Last(ValueStmts).val

\* C3 witness: two top-level values with set statements around them; the
\* first value was discarded
C3_Witness ==
    /\ pc = "parsed"
    /\ Len(hist) = 4
    /\ hist[1].stmt = "set"
    /\ hist[2].stmt = "value"
    /\ hist[3].stmt = "set"
    /\ hist[4].stmt = "value"
    /\ hist[2].val # hist[4].val
    /\ result = hist[4].val

\* main ran on a text with a comment put into it, and has ended
MainEnded == pc = "exit" /\ inp.main

\* C4 as stated: a comment --[[c]], c without a closer, put anywhere into any
\* text t leaves main's outcome as it is for t.
C4_CommentHasNoEffect == MainEnded => out = main(inp.t)

\* C4 amended: the same for a text t that holds no comment opener and a body
\* c that does not end in "]".
C4_CommentHasNoEffectAmended ==
    (/\ MainEnded
     /\ Find(inp.t, CommentOpen, 0) = -1
     /\ (inp.c = <<>> \/ Last(inp.c) # "]"))
       => out = main(inp.t)

\* C4 witness: a comment inside the quoted string 'ab' was removed and the
\* string parsed to ab
C4_Witness ==
    /\ MainEnded
    /\ inp.t = <<"'", "a", "b", "'">>
    /\ inp.p = 2
    /\ inp.c = <<"x">>
    /\ out = [tree |-> StrVal(<<"a", "b">>), written |-> TRUE, status |-> 0]

\* the value of a number or string token
Scalar(tok) ==
    IF tok.type = "NUMBER" THEN float(tok.value)
    ELSE StrVal(SubSeq(tok.value, 2, Len(tok.value) - 1))
IsScalar(tok) == tok.type \in {"NUMBER", "STRING"}

\* seq without its i-th element
RemoveAt(seq, i) == SubSeq(seq, 1, i - 1) \o SubSeq(seq, i + 1, Len(seq))

\* C7: the comma after a struct entry is optional: an entry gives the same
\* key and value with or without it, and a token sequence that parses still
\* parses, to the same result, with any one comma taken out.  A comma where an
\* entry could start raises a SyntaxError, and a "}" there ends the struct.
C7_OptionalComma ==
    pc = "parse" =>
      /\ \A q \in Cursors :
            (TypesAt(q, <<"IDENT", "EQUAL">>) /\ q + 3 <= Len(self.tokens)
               /\ IsScalar(self.tokens[q + 3])) =>
               LET n == struct_entry(At(q))
               IN  /\ n.err = NoError
                   /\ n.key = self.tokens[q + 1].value
                   /\ n.val = Scalar(self.tokens[q + 3])
                   /\ n.self = At(IF TypesAt(q + 3, <<"COMMA">>) THEN q + 4 ELSE q + 3)
      /\ self.pos = 0 =>
            LET full == parse(self, NoneVal)
            IN  full.err = NoError =>
                  \A i \in DOMAIN self.tokens :
                     self.tokens[i].type = "COMMA" =>
                        LET less == parse(Parser(RemoveAt(self.tokens, i)), NoneVal)
                        IN  less.err = NoError /\ less.val = full.val
      /\ \A q \in Cursors :
            /\ TypesAt(q, <<"COMMA">>) =>
                  struct_loop(At(q), EmptyDict).err = ErrExpected("IDENT", "COMMA")
            /\ TypesAt(q, <<"STRUCT", "LBRACE", "COMMA">>) =>
                  parse_value(At(q)).err = ErrExpected("IDENT", "COMMA")
            /\ (TypesAt(q, <<"IDENT", "EQUAL">>) /\ TypesAt(q + 3, <<"COMMA", "COMMA">>)
                  /\ IsScalar(self.tokens[q + 3])) =>
                  struct_loop(At(q), EmptyDict).err = ErrExpected("IDENT", "COMMA")
            /\ TypesAt(q, <<"RBRACE">>) =>
                  struct_loop(At(q), EmptyDict) = Returned(At(q + 1), DictVal(EmptyDict))

\* C7 witness: struct { a = .5 , b = 'x' } was parsed
C7_Witness ==
    /\ pc = "parsed"
    /\ Len(self.tokens) = 10
    /\ self.tokens[6].type = "COMMA"
    /\ result.k = "dict"
    /\ DOMAIN result.obj = {<<"a">>, <<"b">>}
    /\ result.obj[<<"a">>] = NumVal(5, 1)
    /\ result.obj[<<"b">>] = StrVal(<<"x">>)

\* the values parsed one after the other from the object s up to a ")"
RECURSIVE ValuesFrom(_)
ValuesFrom(s) ==
    IF peek(s) = None \/ peek(s).type = "RPAREN" THEN <<>>
    ELSE LET r == parse_value(s)
         IN  IF r.err # NoError THEN <<>> ELSE <<r.val>> \o ValuesFrom(r.self)

\* the number of scalar tokens from cursor q on
RECURSIVE ScalarRun(_)
ScalarRun(q) ==
    IF q < Len(self.tokens) /\ IsScalar(self.tokens[q + 1]) THEN 1 + ScalarRun(q + 1)
    ELSE 0

\* C8: (list v1 ... vn ) parses to the sequence of its n values in token
\* order, () for (list ); the list ends at the first ")" where a value could
\* start, and a comma among the values raises a SyntaxError.
C8_ListInOrder ==
    pc = "parse" =>
      \A q \in Cursors :
         /\ TypesAt(q, <<"LIST">>) =>
               LET r == parse_value(At(q))
                   n == ScalarRun(q + 1)
               IN  /\ r.err = NoError =>
                         /\ r.val = ListVal(ValuesFrom(At(q + 1)))
                         /\ self.tokens[r.self.pos].type = "RPAREN"
                   /\ TypesAt(q + 1, <<"RPAREN">>) =>
                         r = Returned(At(q + 2), ListVal(<<>>))
                   /\ TypesAt(q + 1 + n, <<"RPAREN">>) =>
                         r = Returned(At(q + n + 2),
                                      ListVal([i \in 1 .. n |->
                                                  Scalar(self.tokens[q + 1 + i])]))
                   /\ TypesAt(q + 1 + n, <<"COMMA">>) =>
                         r.err = ErrUnexpectedToken("COMMA")
         /\ TypesAt(q, <<"COMMA">>) =>
               list_loop(At(q), <<>>).err = ErrUnexpectedToken("COMMA")

\* C8 witness: (list .5 'x' ) was parsed
C8_Witness ==
    /\ pc = "parsed"
    /\ result = ListVal(<<NumVal(5, 1), StrVal(<<"x">>)>>)

\* C9: every iteration of tokenize's loop raises or moves the scan position
\* forward (no pattern matches the empty string); every iteration of parse's
\* loop, of the list loop and of the struct loop raises or moves the cursor
\* forward, and the cursor never goes back nor past the last token.
C9_LoopsAdvance ==
    [][/\ Scanning =>
            /\ pos' > pos \/ pc' = "raised"
            /\ pos' >= pos /\ pos' <= Len(text)
            /\ \A ty \in Range(StatedOrder) : Match(ty, text, pos) # pos
       /\ pc = "parse" =>
            /\ peek(self) # None => self'.pos > self.pos \/ pc' = "raised"
            /\ self'.pos >= self.pos
            /\ self'.pos <= Len(self.tokens)
            /\ self'.tokens = self.tokens
            /\ \A q \in Cursors :
                  /\ peek(At(q)).type # "RPAREN" =>
                        LET r == parse_value(At(q))
                        IN  /\ r.self.pos > q \/ r.err # NoError
                            /\ r.self.pos >= q /\ r.self.pos <= Len(self.tokens)
                  /\ peek(At(q)).type # "RBRACE" =>
                        LET n == struct_entry(At(q))
                        IN  /\ n.self.pos > q \/ n.err # NoError
                            /\ n.self.pos >= q /\ n.self.pos <= Len(self.tokens)
    ]_vars

\* C9 witness: main scanned set a=.5 in five iterations to the end of the
\* text and parsed its four tokens in one iteration to the end of the tokens
C9_Witness ==
    /\ pc = "parsed"
    /\ Len(lexemes) = 5
    /\ pos = Len(text)
    /\ Len(hist) = 1
    /\ hist[1].to = hist[1].from + 4
    /\ self.pos = Len(self.tokens)

\* C10: the constant table changes only when a top-level set statement has
\* been parsed completely, and then in the binding of its name alone; parsing
\* a value at any depth leaves it as it is, a set token where a list item or
\* a struct entry's value is due raises a SyntaxError, and a set statement
\* whose value fails defines nothing.
C10_TableChangesOnlyBySet ==
    [][pc = "parse" =>
        /\ AtValue => self'.constants = self.constants
        /\ AtSet /\ pc' = "raised" => self'.constants = self.constants
        /\ AtSet /\ pc' = "parse" =>
              LET name == self.tokens[self.pos + 2].value
                  v == parse_value(At(self.pos + 3)).val
              IN  /\ DOMAIN self'.constants = DOMAIN self.constants \cup {name}
                  /\ self'.constants[name] = v
                  /\ \A m \in DOMAIN self.constants \ {name} :
                        self'.constants[m] = self.constants[m]
        /\ \A q \in Cursors :
              /\ parse_value(At(q)).self.constants = self.constants
              /\ struct_entry(At(q)).self.constants = self.constants
              /\ (\/ TypesAt(q, <<"SET">>)
                  \/ TypesAt(q, <<"LIST", "SET">>)
                  \/ TypesAt(q, <<"STRUCT", "LBRACE", "IDENT", "EQUAL", "SET">>)) =>
                    parse_value(At(q)).err = ErrUnexpectedToken("SET")
    ]_vars

\* C10 witness: after set a = .5 a second set statement failed in its value
\* and the table still holds a = .5 alone
C10_Witness ==
    /\ pc = "raised"
    /\ Len(hist) = 1
    /\ hist[1].stmt = "set"
    /\ TypesAt(hist[1].to, <<"SET", "IDENT", "EQUAL">>)
    /\ DOMAIN self.constants = {<<"a">>}
    /\ self.constants[<<"a">>] = NumVal(5, 1)

====
